---- MODULE Spec2Model ----
(***************************************************************************)
(* Image reference resolution, manifest graph walk and prune of the        *)
(* containerd-backed image store of rumpl/moby.                            *)
(*                                                                         *)
(* Strings are sequences of lexemes: single characters, and the lexemes    *)
(* "sha256:", "docker.io/library/" and "latest", which the code only ever  *)
(* compares or concatenates as a whole.                                    *)
(***************************************************************************)
EXTENDS Integers, Sequences, FiniteSets, TLC

VARIABLES
    index,      \* Image Index: name -> target descriptor
    store,      \* Content Store: the digests whose blob is present
    res,        \* the last resolve call and what it returned
    pc,         \* ImagesPrune: "idle", "run" (between its calls of the stores) or "done"
    images,     \* ImagesPrune: the records its is.List returned
    markIdx,    \* ImagesPrune: the image the first loop is at
    todo,       \* Walk: the descriptors still to handle, of the image walked
    toDelete,   \* ImagesPrune: digest -> size, filled by the walks
    swept,      \* ImagesPrune: the keys of toDelete the second loop has been through
    untagIdx,   \* ImagesPrune: the image the third loop is at
    errs,       \* ImagesPrune: the errors collected
    report,     \* ImagesPrune: the report being built
    ret,        \* ImagesPrune: what it returned
    visits,     \* history: the descriptors handed to the walk handler, with their image
    walks,      \* history: how the walk of each image ended
    faults,     \* the store calls made to fail so far
    calls,      \* history: the deletes ImagesPrune issued, with their outcome
    filter,     \* ImagesPrune: its pruneFilters argument
    prior,      \* history: the earlier prunes of this run, as they returned
    lst,        \* Images: the images listed, the snapshotter, and the last call
    ctx,        \* ImagesPrune: its context, and where prune was when it was cancelled
    tag         \* TagImage: the calls made, with the index before them

pruneVars == <<pc, images, markIdx, todo, toDelete, swept, untagIdx, errs, report, ret,
               visits, walks, faults, calls, filter, prior>>
vars == <<index, store, res, pruneVars, lst, ctx, tag>>

(***************************************************************************)
(* Program constants                                                       *)
(***************************************************************************)
\* the lower bound of the short-ID pattern ^([a-f0-9]{4,64})$
MinShortLen == 4
\* the number of hex characters of a sha256 digest (the pattern's upper bound)
HexLen == 64

LowerHex == {"a", "b", "c", "d", "e", "f", "0", "1", "2", "3", "4", "5", "6", "7", "8", "9"}
AnyHex == LowerHex \cup {"A", "B", "C", "D", "E", "F"}
\* the characters of a repository name that the inputs use: [a-z0-9]
NameChars == LowerHex \cup {"x", "y"}

(***************************************************************************)
(* Digests and descriptors                                                 *)
(***************************************************************************)
Zeros(n) == [i \in 1..n |-> "0"]
\* a sha256 digest string whose hex part begins with p
Dg(p) == <<"sha256:">> \o p \o Zeros(HexLen - Len(p))
HexOf(d) == SubSeq(d, 2, Len(d))

NoDigest == <<>>
NoPlatform == "none"
\* the zero value ocispec.Descriptor{}
NoDesc == [digest |-> NoDigest, mediaType |-> "", size |-> 0, platform |-> NoPlatform]
Desc(d, mt, sz, pf) == [digest |-> d, mediaType |-> mt, size |-> sz, platform |-> pf]

dIdx == Dg(<<"a", "b", "1", "2", "a">>)
dM2 == Dg(<<"a", "b", "1", "2", "b">>)
dM1 == Dg(<<"c", "d", "3", "4">>)
dM3 == Dg(<<"e", "3">>)
dBad == Dg(<<"b", "a", "d">>)
dC1 == Dg(<<"c", "1">>)
dC2 == Dg(<<"c", "2">>)
dC3 == Dg(<<"c", "3">>)
dL1 == Dg(<<"f", "1">>)
dL2 == Dg(<<"f", "2">>)
dL3 == Dg(<<"f", "3">>)

(***************************************************************************)
(* The content of the blobs: a function of the digest alone (the store is  *)
(* content-addressed). MediaType names the kind of a descriptor. The index  *)
(* lists a manifest without platform first, then one of another            *)
(* architecture, then two of the host's. A descriptor carries the size its *)
(* writer gave it: the list records 7 for the manifest that the record of  *)
(* tM2 gives 3.                                                            *)
(***************************************************************************)
Platforms == {"amd64", "arm64", "arm"}

Blob(d) ==
    CASE d = dIdx -> [kind |-> "index",
                      manifests |-> <<Desc(dM3, "manifest", 3, NoPlatform),
                                      Desc(dM1, "manifest", 3, "arm64"),
                                      Desc(dM2, "manifest", 7, "amd64"),
                                      Desc(dM3, "manifest", 3, "amd64")>>]
      [] d = dM1 -> [kind |-> "manifest", config |-> Desc(dC1, "config", 1, NoPlatform),
                     layers |-> <<Desc(dL1, "layer", 5, NoPlatform)>>]
      [] d = dM2 -> [kind |-> "manifest", config |-> Desc(dC2, "config", 1, NoPlatform),
                     layers |-> <<Desc(dL1, "layer", 5, NoPlatform)>>]
      [] d = dM3 -> [kind |-> "manifest", config |-> Desc(dC3, "config", 1, NoPlatform),
                     layers |-> <<Desc(dL3, "layer", 2, NoPlatform)>>]
      [] d = dBad -> [kind |-> "manifest", config |-> Desc(dC2, "config", 1, NoPlatform),
                      layers |-> <<Desc(dL2, "layer", -1, NoPlatform),
                                   Desc(dL1, "layer", 5, NoPlatform)>>]
      [] d = dC1 -> [kind |-> "config", platform |-> "arm64"]
      [] d = dC2 -> [kind |-> "config", platform |-> "amd64"]
      [] d = dC3 -> [kind |-> "config", platform |-> "amd64"]
      [] OTHER -> [kind |-> "layer"]

AllDigests == {dIdx, dM1, dM2, dM3, dBad, dC1, dC2, dC3, dL1, dL2, dL3}

(***************************************************************************)
(* References: reference.ParseAnyReference, TagNameOnly and String         *)
(***************************************************************************)
IsHex(s) == \A i \in 1..Len(s) : s[i] \in LowerHex

\* the first position of c in s, 0 when s does not hold it
IndexOf(s, c) ==
    IF \E i \in 1..Len(s) : s[i] = c
    THEN CHOOSE i \in 1..Len(s) : s[i] = c /\ \A j \in 1..(i - 1) : s[j] # c
    ELSE 0

\* digest.Parse: the algorithm and HexLen lower-case hex characters
IsDigestString(s) ==
    /\ Len(s) = HexLen + 1
    /\ s[1] = "sha256:"
    /\ IsHex(HexOf(s))

\* truncatedID / shortID: ^([a-f0-9]{4,64})$
IsShortID(s) == Len(s) >= MinShortLen /\ Len(s) <= HexLen /\ IsHex(s)

\* anchoredIdentifierRegexp of the reference package: ^([a-f0-9]{64})$
IsIdentifier(s) == Len(s) = HexLen /\ IsHex(s)

InvalidRef == [kind |-> "invalid", name |-> <<>>, tag |-> <<>>, digest |-> NoDigest]

\* reference.ParseNormalizedNamed for familiar names: name[:tag][@digest],
\* the name completed with the default domain and the library/ prefix
ParseNormalizedNamed(s) ==
    LET at == IndexOf(s, "@")
        head == IF at = 0 THEN s ELSE SubSeq(s, 1, at - 1)
        dg == IF at = 0 THEN NoDigest ELSE SubSeq(s, at + 1, Len(s))
        col == IndexOf(head, ":")
        nm == IF col = 0 THEN head ELSE SubSeq(head, 1, col - 1)
        tg == IF col = 0 THEN <<>> ELSE SubSeq(head, col + 1, Len(head))
    IN  IF \/ nm = <<>>
           \/ \E i \in 1..Len(nm) : nm[i] \notin NameChars
           \/ col # 0 /\ (tg = <<>> \/ \E i \in 1..Len(tg) : tg[i] \notin NameChars \cup {"latest"})
           \/ at # 0 /\ ~IsDigestString(dg)
        THEN InvalidRef
        ELSE [kind |-> "named", name |-> <<"docker.io/library/">> \o nm,
              tag |-> tg, digest |-> dg]

ParseAnyReference(s) ==
    IF IsIdentifier(s)
    THEN [kind |-> "digest", name |-> <<>>, tag |-> <<>>, digest |-> <<"sha256:">> \o s]
    ELSE IF IsDigestString(s)
    THEN [kind |-> "digest", name |-> <<>>, tag |-> <<>>, digest |-> s]
    ELSE ParseNormalizedNamed(s)

\* the type assertions parsed.(reference.Named) and parsed.(reference.Digested)
IsNamed(p) == p.kind = "named"
IsDigested(p) == p.digest # NoDigest

\* reference.TagNameOnly: the default tag for a name with neither tag nor digest
TagNameOnly(p) ==
    IF p.tag = <<>> /\ p.digest = NoDigest THEN [p EXCEPT !.tag = <<"latest">>] ELSE p

\* Reference.String() of a named reference
RefString(p) ==
    p.name \o (IF p.tag = <<>> THEN <<>> ELSE <<":">> \o p.tag)
           \o (IF p.digest = NoDigest THEN <<>> ELSE <<"@">> \o p.digest)

(***************************************************************************)
(* The Image Index (containerd's image store)                              *)
(***************************************************************************)
nHex == <<"docker.io/library/", "a", "b", "1", "2", ":", "latest">>
nX == <<"docker.io/library/", "x", ":", "latest">>
nXd == <<"docker.io/library/", "x", "@">> \o dIdx
nY == <<"docker.io/library/", "y", ":", "latest">>

\* the names of the model in the byte order of the store's keys, the order
\* in which List returns records (':' sorts before '@')
NameOrder == <<nHex, nX, nXd, nY>>
Names == {NameOrder[i] : i \in 1..Len(NameOrder)}

\* danglingImageName(d): the name under which an image without a tag is kept;
\* the names of the two fixtures that can be dangling, in key order after NameOrder
Dangling(d) == <<"moby-dangling@">> \o d
DanglingOrder == <<Dangling(dM2), Dangling(dM1)>>

NoName == <<>>
\* the zero value containerdimages.Image{}
NoImage == [name |-> NoName, target |-> NoDesc]

\* errors: the class a caller can test for, and the message
NoErr == [class |-> "nil", msg |-> "", about |-> <<>>]
\* an error about a digest or a name (the %s of its message)
ErrAbout(class, msg, about) == [class |-> class, msg |-> msg, about |-> about]
Err(class, msg) == ErrAbout(class, msg, <<>>)

\* is.List(ctx) without filters: every record, in key order
ListAll(idx) ==
    LET present == SelectSeq(NameOrder \o DanglingOrder, LAMBDA n : n \in DOMAIN idx)
    IN  [i \in 1..Len(present) |-> [name |-> present[i], target |-> idx[present[i]]]]

\* is.List(ctx, "target.digest==" + d)
ListByDigest(idx, d) == SelectSeq(ListAll(idx), LAMBDA im : im.target.digest = d)

\* the regular expression sha256:<id>[0-9a-fA-F]{64-len(id)} of resolveImageName,
\* which the filter searches for anywhere in the digest string
MatchShortIDFilter(text, id) ==
    \E i \in 1..Len(text) :
        LET e == i + Len(id) + (HexLen - Len(id))
        IN  /\ e <= Len(text)
            /\ text[i] = "sha256:"
            /\ SubSeq(text, i + 1, i + Len(id)) = id
            /\ \A j \in (i + Len(id) + 1)..e : text[j] \in AnyHex

\* the regular expression sha256:^<id>[0-9a-fA-F]{64-len(id)}$ of resolveImage:
\* ^ holds only before the first character of the text, $ only after the last
MatchTruncatedIDFilter(text, id) ==
    \E i \in 1..Len(text) :
        LET e == i + Len(id) + (HexLen - Len(id))
        IN  /\ e <= Len(text)
            /\ text[i] = "sha256:"
            /\ i + 1 = 1
            /\ SubSeq(text, i + 1, i + Len(id)) = id
            /\ \A j \in (i + Len(id) + 1)..e : text[j] \in AnyHex
            /\ e = Len(text)

\* is.List(ctx, name==ref, target.digest~=...) of resolveImageName: the filters are alternatives
ListShortID(idx, ref, id) ==
    SelectSeq(ListAll(idx), LAMBDA im : im.name = ref \/ MatchShortIDFilter(im.target.digest, id))

\* the same call of resolveImage, with its own regular expression
ListTruncatedID(idx, ref, id) ==
    SelectSeq(ListAll(idx), LAMBDA im : im.name = ref \/ MatchTruncatedIDFilter(im.target.digest, id))

\* NameHit without the comparison of names: no record ever wins by its name
NameHitNever(imgs, ref) == 0

\* the loop over imgs: the first record named ref, 0 when there is none
NameHit(imgs, ref) ==
    IF \E i \in 1..Len(imgs) : imgs[i].name = ref
    THEN CHOOSE i \in 1..Len(imgs) : imgs[i].name = ref /\ \A j \in 1..(i - 1) : imgs[j].name # ref
    ELSE 0

\* the digests map filled by the loop
DigestsOf(imgs) == {imgs[i].target.digest : i \in 1..Len(imgs)}

\* what the short-ID branch makes of the listed records: the image and the error
PickShortID(imgs, ref, notFound) ==
    IF Len(imgs) = 0 THEN [img |-> NoImage, err |-> notFound]
    ELSE IF Len(imgs) > 1 /\ NameHit(imgs, ref) # 0
    THEN [img |-> imgs[NameHit(imgs, ref)], err |-> NoErr]
    ELSE IF Len(imgs) > 1 /\ Cardinality(DigestsOf(imgs)) > 1
    THEN [img |-> NoImage, err |-> Err("NotFound", "ambiguous reference")]
    ELSE [img |-> imgs[1], err |-> NoErr]

(***************************************************************************)
(* containerdimages.Children and containerdimages.Platforms, as the        *)
(* platform check of resolveImage calls them                               *)
(***************************************************************************)
\* the child descriptors of desc, read from its blob: ok is FALSE when the blob is absent
Children(st, desc) ==
    IF desc.mediaType \in {"manifest", "index"} /\ desc.digest \notin st
    THEN [ok |-> FALSE, descs |-> <<>>]
    ELSE IF desc.mediaType = "manifest"
    THEN [ok |-> TRUE, descs |-> <<Blob(desc.digest).config>> \o Blob(desc.digest).layers]
    ELSE IF desc.mediaType = "index"
    THEN [ok |-> TRUE, descs |-> Blob(desc.digest).manifests]
    ELSE [ok |-> TRUE, descs |-> <<>>]

\* Walk with the handler of Platforms: a descriptor that declares a platform gives it
\* and is skipped, a config gives the platform of its blob, anything else is descended
RECURSIVE WalkPlatforms(_, _)
WalkPlatforms(st, descs) ==
    IF descs = <<>> THEN [ok |-> TRUE, ps |-> {}]
    ELSE LET d == Head(descs)
             ch == Children(st, d)
             more == IF d.platform # NoPlatform THEN WalkPlatforms(st, Tail(descs))
                     ELSE WalkPlatforms(st, ch.descs \o Tail(descs))
         IN  IF d.platform # NoPlatform
             THEN [ok |-> more.ok, ps |-> more.ps \cup {d.platform}]
             ELSE IF d.mediaType = "config" /\ d.digest \notin st
             THEN [ok |-> FALSE, ps |-> {}]
             ELSE IF ~ch.ok THEN [ok |-> FALSE, ps |-> {}]
             ELSE IF d.mediaType = "config"
             THEN [ok |-> more.ok, ps |-> more.ps \cup {Blob(d.digest).platform}]
             ELSE more

ImagePlatforms(st, target) == WalkPlatforms(st, <<target>>)

\* platforms.Only(p).Match(q): q is p or a platform p can run (arm64 runs arm)
OnlyMatch(p, q) == q = p \/ (p = "arm64" /\ q = "arm")

\* the platform check that ends resolveImage
CheckPlatform(st, img, platform) ==
    LET got == ImagePlatforms(st, img.target)
    IN  IF platform = NoPlatform THEN [img |-> img, err |-> NoErr]
        ELSE IF ~got.ok
        THEN [img |-> img, err |-> Err("cerrdefs.NotFound", "content not found")]
        ELSE IF \E q \in got.ps : OnlyMatch(platform, q) THEN [img |-> img, err |-> NoErr]
        ELSE [img |-> img, err |-> Err("NotFound", "platform not supported by image")]

(***************************************************************************)
(* The resolvers                                                           *)
(***************************************************************************)
ErrImageDoesNotExist == Err("NotFound", "No such image")
\* what a failing Image Index answers: an error that is not a not-found error
ErrIndex == Err("Unavailable", "image service failed")

\* is.Get(ctx, name)
GetImage(idx, idxFails, name) ==
    IF idxFails THEN [img |-> NoImage, err |-> ErrIndex]
    ELSE IF name \in DOMAIN idx THEN [img |-> [name |-> name, target |-> idx[name]], err |-> NoErr]
    ELSE [img |-> NoImage, err |-> Err("cerrdefs.NotFound", "image not found")]

\* the translation of the error of is.Get: a not-found error of containerd becomes
\* the not-found error of the daemon, any other error is returned as it is
TranslateGetErr(e, notFound) == IF e.class = "cerrdefs.NotFound" THEN notFound ELSE e

\* the branch of resolveImage taken by every reference that carries a digest
ResolveImageDigested(idx, idxFails, parsed) ==
    LET imgs == ListByDigest(idx, parsed.digest)
    IN  IF idxFails THEN [img |-> NoImage, err |-> ErrIndex]
        ELSE IF Len(imgs) = 0 THEN [img |-> NoImage, err |-> ErrImageDoesNotExist]
        ELSE [img |-> imgs[1], err |-> NoErr]

\* ImageService.resolveImage
ResolveImage(idx, st, idxFails, refOrID, platform) ==
    LET parsed == ParseAnyReference(refOrID)
        ref == RefString(TagNameOnly(parsed))
        got == GetImage(idx, idxFails, ref)
    IN  IF parsed.kind = "invalid"
        THEN [img |-> NoImage, err |-> Err("InvalidParameter", "invalid reference format")]
        ELSE IF IsDigested(parsed) THEN ResolveImageDigested(idx, idxFails, parsed)
        ELSE IF IsShortID(refOrID)
        THEN IF idxFails THEN [img |-> NoImage, err |-> ErrIndex]
             ELSE PickShortID(ListTruncatedID(idx, ref, refOrID), ref, ErrImageDoesNotExist)
        ELSE IF got.err # NoErr
        THEN [img |-> NoImage, err |-> TranslateGetErr(got.err, ErrImageDoesNotExist)]
        ELSE CheckPlatform(st, got.img, platform)

\* ResolveNameDigested returning the last listed record instead of the first
ResolveNameDigestedLast(idx, idxFails, parsed) ==
    LET imgs == ListByDigest(idx, parsed.digest)
    IN  IF idxFails THEN [img |-> NoImage, named |-> NoName, err |-> ErrIndex]
        ELSE IF Len(imgs) = 0
        THEN [img |-> NoImage, named |-> NoName,
              err |-> Err("NotFound", "image not found with digest")]
        ELSE [img |-> imgs[Len(imgs)], named |-> NoName, err |-> NoErr]

\* the branch of resolveImageName taken by a reference that is not Named
ResolveNameDigested(idx, idxFails, parsed) ==
    LET imgs == ListByDigest(idx, parsed.digest)
    IN  IF ~IsDigested(parsed)
        THEN [img |-> NoImage, named |-> NoName, err |-> Err("InvalidParameter", "bad reference")]
        ELSE IF idxFails THEN [img |-> NoImage, named |-> NoName, err |-> ErrIndex]
        ELSE IF Len(imgs) = 0
        THEN [img |-> NoImage, named |-> NoName,
              err |-> Err("NotFound", "image not found with digest")]
        ELSE [img |-> imgs[1], named |-> NoName, err |-> NoErr]

\* containerdStore.resolveImageName (the same text in both packages); img.target is
\* the descriptor it returns, named the reference it returns
ResolveImageName(idx, idxFails, refOrID) ==
    LET parsed == ParseAnyReference(refOrID)
        ref == RefString(TagNameOnly(parsed))
        pick == PickShortID(ListShortID(idx, ref, refOrID), ref,
                            Err("NotFound", "list returned no images"))
        got == GetImage(idx, idxFails, ref)
    IN  IF parsed.kind = "invalid"
        THEN [img |-> NoImage, named |-> NoName,
              err |-> Err("InvalidParameter", "invalid reference format")]
        ELSE IF ~IsNamed(parsed) THEN ResolveNameDigested(idx, idxFails, parsed)
        ELSE IF IsShortID(refOrID)
        THEN IF idxFails THEN [img |-> NoImage, named |-> NoName, err |-> ErrIndex]
             ELSE [img |-> pick.img,
                   named |-> IF pick.err = NoErr /\ pick.img.name = ref THEN ref ELSE NoName,
                   err |-> pick.err]
        ELSE IF got.err # NoErr
        THEN [img |-> NoImage, named |-> NoName,
              err |-> TranslateGetErr(got.err, Err("NotFound", "id not found"))]
        ELSE [img |-> got.img, named |-> ref, err |-> NoErr]

(***************************************************************************)
(* Resolution as a state machine: any Image Index, then one call, whose    *)
(* arguments and result res keeps (the index does not change, so a second  *)
(* call would add nothing)                                                 *)
(***************************************************************************)
\* the target descriptors image records point at
tIdx == Desc(dIdx, "index", 4, NoPlatform)
tM1 == Desc(dM1, "manifest", 3, NoPlatform)
tM2 == Desc(dM2, "manifest", 3, NoPlatform)
\* the digest of tM1 under another recorded size: a record's descriptor is what its
\* creator wrote
tM1b == Desc(dM1, "manifest", 9, NoPlatform)
ResolveTargets == {tIdx, tM1, tM1b, tM2}

\* the strings resolve is called with
sAb12 == <<"a", "b", "1", "2">>
RefInputs ==
    { sAb12,                                \* short-ID shaped, and the name of nHex
      <<"a", "b", "1">>,                    \* hex, one character too short
      <<"a", "b", "1", "2", "a">>,          \* begins the digest of one blob only
      <<"c", "d", "3", "4">>,
      HexOf(dIdx),                          \* a full identifier
      dM1,                                  \* sha256:<hex>
      <<"x">>, <<"y">>,
      <<"x", ":", "latest">>,
      <<"x", "@">> \o dIdx,                 \* name@digest
      <<"y", "@">> \o dM1,
      <<"X">> }                             \* upper case: no reference

NoCall == [fn |-> "none", ref |-> <<>>, platform |-> NoPlatform, idxFails |-> FALSE,
           img |-> NoImage, named |-> NoName, err |-> NoErr]

\* the report and the error of a prune that has not returned
NoReturn == [returned |-> FALSE, report |-> [spaceReclaimed |-> 0, deleted |-> <<>>],
             hasReport |-> FALSE, err |-> NoErr, all |-> <<>>]
EmptyMap == [d \in {} |-> 0]

\* the empty filters.Args
NoFilter == "none"

\* no ImagesPrune has been called
PruneIdle ==
    /\ pc = "idle" /\ images = <<>> /\ markIdx = 1 /\ todo = <<>>
    /\ toDelete = EmptyMap /\ swept = {} /\ untagIdx = 1 /\ errs = <<>>
    /\ report = [spaceReclaimed |-> 0, deleted |-> <<>>]
    /\ ret = NoReturn /\ visits = <<>> /\ walks = <<>> /\ faults = 0
    /\ calls = <<>> /\ filter = NoFilter /\ prior = <<>>

\* an Images call that has not been made
NoListCall == [called |-> FALSE, shared |-> FALSE, keep |-> {}, outcome |-> "none",
               summaries |-> <<>>, err |-> NoErr, usageCalls |-> <<>>, hits |-> <<>>]
\* nothing to list and no Images call
ListIdle == lst = [batch |-> <<>>, failing |-> {}, call |-> NoListCall]

\* a context that has not been cancelled
Live == [cancelled |-> FALSE, visits |-> 0, calls |-> 0]
\* no TagImage has been called
NoTag == <<>>
\* the context of prune is live and nothing has been tagged
RestIdle == ctx = Live /\ tag = NoTag

InitResolve ==
    /\ index \in UNION {[S -> ResolveTargets] : S \in SUBSET Names}
    /\ store \in {AllDigests, AllDigests \ {dM2}}
    /\ res = NoCall
    /\ PruneIdle
    /\ ListIdle
    /\ RestIdle

\* a call of ImageService.resolveImage
CallResolveImage(refOrID, platform, idxFails) ==
    LET out == ResolveImage(index, store, idxFails, refOrID, platform)
    IN  /\ res = NoCall
        /\ res' = [fn |-> "resolveImage", ref |-> refOrID, platform |-> platform,
                   idxFails |-> idxFails, img |-> out.img, named |-> NoName, err |-> out.err]
        /\ UNCHANGED <<index, store, pruneVars, lst, ctx, tag>>

\* a call of containerdStore.resolveImageName
CallResolveImageName(refOrID, idxFails) ==
    LET out == ResolveImageName(index, idxFails, refOrID)
    IN  /\ res = NoCall
        /\ res' = [fn |-> "resolveImageName", ref |-> refOrID, platform |-> NoPlatform,
                   idxFails |-> idxFails, img |-> out.img, named |-> out.named, err |-> out.err]
        /\ UNCHANGED <<index, store, pruneVars, lst, ctx, tag>>

NextResolve ==
    \/ \E r \in RefInputs, p \in {NoPlatform, "amd64", "arm64"}, f \in BOOLEAN :
          CallResolveImage(r, p, f)
    \/ \E r \in RefInputs, f \in BOOLEAN : CallResolveImageName(r, f)

SpecResolve == InitResolve /\ [][NextResolve]_vars

(***************************************************************************)
(* Properties of resolution                                                *)
(***************************************************************************)
Resolvers == {"resolveImage", "resolveImageName"}
\* a resolver returned, and the Image Index answered its queries
Answered == res.fn \in Resolvers /\ ~res.idxFails
ResParsed == ParseAnyReference(res.ref)
\* the canonical default-tagged reference of the string resolved
ResCanon == RefString(TagNameOnly(ResParsed))
ResNamed == ResParsed.kind = "named"

\* the hex part of digest d begins with s
HasPrefix(d, s) == Len(d) = HexLen + 1 /\ d[1] = "sha256:" /\ SubSeq(d, 2, Len(s) + 1) = s
\* the records whose target digest begins with the string resolved
PrefixRecords == {n \in DOMAIN index : HasPrefix(index[n].digest, res.ref)}
\* the records the short-ID query is to return: named canon, or a digest prefix match
QueryRecords == {n \in DOMAIN index : n = ResCanon} \cup PrefixRecords
ShortIDCall == Answered /\ ResNamed /\ IsShortID(res.ref)

\* C1: a short-ID string whose query (name == canon OR digest prefix) has more than
\* one record, one of them named canon: resolve returns the target of the record
\* named canon, whatever the digests of the other records
C1_NameHitWins ==
    (ShortIDCall /\ Cardinality(QueryRecords) > 1 /\ ResCanon \in DOMAIN index)
        => /\ res.err = NoErr
           /\ res.img.target = index[ResCanon]
           /\ res.fn = "resolveImage" => res.img.name = ResCanon

C1_Witness ==
    /\ res.fn = "resolveImageName" /\ ShortIDCall /\ ResCanon \in DOMAIN index
    /\ \E n \in PrefixRecords : n # ResCanon /\ index[n].digest # index[ResCanon].digest
    /\ ~HasPrefix(index[ResCanon].digest, res.ref)
    /\ res.err = NoErr /\ res.img.target = index[ResCanon]

\* C2: a short-ID string, no record named canon, two records of different digests
\* that both begin with the string: resolve returns no descriptor and the
\* ambiguous-reference error
C2_Ambiguous ==
    (/\ ShortIDCall /\ ResCanon \notin DOMAIN index
     /\ \E n, m \in PrefixRecords : index[n].digest # index[m].digest)
        => res.img = NoImage /\ res.err.msg = "ambiguous reference"

\* C3: a short-ID string s, no record named canon, exactly one record whose digest
\* begins with s: resolve returns the target of that record
C3_UniquePrefix ==
    (/\ Answered /\ IsShortID(res.ref) /\ ResParsed.kind # "invalid"
     /\ ResNamed => ResCanon \notin DOMAIN index
     /\ Cardinality(PrefixRecords) = 1)
        => res.err = NoErr /\ \A n \in PrefixRecords : res.img.target = index[n]

\* C4: the short-ID query has more than one record, none named canon, all of one
\* digest: resolve succeeds with a descriptor of that digest
C4_SameDigest ==
    (/\ ShortIDCall /\ ResCanon \notin DOMAIN index
     /\ Cardinality(QueryRecords) > 1
     /\ \A n, m \in QueryRecords : index[n].digest = index[m].digest)
        => res.err = NoErr /\ \A n \in QueryRecords : res.img.target.digest = index[n].digest

\* no record matches the reference resolved: none of its digest for a bare digest,
\* none in the short-ID query for a short-ID string, none named canon for any other name
NoMatch ==
    IF ~ResNamed THEN \A n \in DOMAIN index : index[n].digest # ResParsed.digest
    ELSE IF IsShortID(res.ref) THEN QueryRecords = {}
    ELSE ResCanon \notin DOMAIN index

\* C5: for every reference that parses, resolve fails with NotFound and returns no
\* descriptor whenever no record matches
C5_NotFound ==
    (Answered /\ ResParsed.kind # "invalid" /\ NoMatch)
        => res.err.class = "NotFound" /\ res.img = NoImage

\* C5 for the references that carry no digest after a name
C5_NotFoundUndigested ==
    (Answered /\ ResParsed.kind # "invalid" /\ ~(ResNamed /\ IsDigested(ResParsed)) /\ NoMatch)
        => res.err.class = "NotFound" /\ res.img = NoImage

\* C6: a bare digest that one or more records target: resolve returns the target of
\* the first of them in listing order, a descriptor of that digest, and no error
C6_BareDigestFirst ==
    (/\ Answered /\ ResParsed.kind = "digest"
     /\ \E n \in DOMAIN index : index[n].digest = ResParsed.digest)
        => /\ res.err = NoErr
           /\ res.img.target.digest = ResParsed.digest
           /\ \E i \in 1..Len(NameOrder) :
                 /\ NameOrder[i] \in DOMAIN index
                 /\ index[NameOrder[i]].digest = ResParsed.digest
                 /\ res.img.target = index[NameOrder[i]]
                 /\ res.fn = "resolveImage" => res.img.name = NameOrder[i]
                 /\ \A j \in 1..(i - 1) :
                       NameOrder[j] \in DOMAIN index => index[NameOrder[j]].digest # ResParsed.digest

C6_Witness ==
    /\ Answered /\ ResParsed.kind = "digest" /\ res.err = NoErr
    /\ \E n, m \in DOMAIN index :
          /\ index[n].digest = ResParsed.digest /\ index[m].digest = ResParsed.digest
          /\ index[n] # index[m] /\ res.img.target = index[n]

\* C7: a reference with a name part, name@digest included, resolves through its
\* canonical name: when it resolves and is not short-ID shaped, the record returned
\* is the record named canon
C7_NamedByName ==
    (Answered /\ ResNamed /\ ~IsShortID(res.ref) /\ res.err = NoErr)
        => /\ ResCanon \in DOMAIN index
           /\ res.img.target = index[ResCanon]

\* C8: with a platform constraint and a reference that resolves to a record (by any
\* path): NotFound when no platform of the record's image matches, the descriptor
\* resolved without the constraint when one does
Unconstrained == ResolveImage(index, store, FALSE, res.ref, NoPlatform)
C8_PlatformChecked ==
    (/\ Answered /\ res.fn = "resolveImage" /\ res.platform # NoPlatform
     /\ Unconstrained.err = NoErr
     /\ ImagePlatforms(store, Unconstrained.img.target).ok)
        => IF \E q \in ImagePlatforms(store, Unconstrained.img.target).ps :
                 OnlyMatch(res.platform, q)
           THEN res.err = NoErr /\ res.img = Unconstrained.img
           ELSE res.err.class = "NotFound"

\* C8 on the exact-name path alone
C8_PlatformCheckedByName ==
    (ResNamed /\ ~IsDigested(ResParsed) /\ ~IsShortID(res.ref)) => C8_PlatformChecked

(***************************************************************************)
(* The walk of getContentDigestsWithSizes: Walk over Handlers(record,      *)
(* LimitManifests(FilterPlatforms(ChildrenHandler(store), platform),       *)
(* platform, 1))                                                           *)
(***************************************************************************)
\* platforms.DefaultStrict(): the platform of the host, matched exactly
DefaultPlatform == "amd64"
MatchStrict(p, q) == q = p

\* a handler that filters no child
FilterNone(descs) == descs

\* FilterPlatforms: the children that declare no platform or a matching one
FilterPlatforms(descs) ==
    SelectSeq(descs, LAMBDA c : c.platform = NoPlatform \/ MatchStrict(DefaultPlatform, c.platform))

\* the stable sort of LimitManifests on children that all match: those that declare
\* a platform keep their order, those that declare none follow
SortByPlatform(descs) ==
    SelectSeq(descs, LAMBDA c : c.platform # NoPlatform)
        \o SelectSeq(descs, LAMBDA c : c.platform = NoPlatform)

ErrNoMatch == Err("cerrdefs.NotFound", "no match for platform in manifest")
ErrRead(d) == ErrAbout("cerrdefs.NotFound", "content not found", d)

\* LimitManifests(..., 1) with a limit of n manifests
LimitTo(st, desc, n) ==
    LET ch == Children(st, desc)
        kept == FilterPlatforms(ch.descs)
        sorted == SortByPlatform(kept)
    IN  IF ~ch.ok THEN [ok |-> FALSE, descs |-> <<>>, err |-> ErrRead(desc.digest)]
        ELSE IF desc.mediaType # "index" THEN [ok |-> TRUE, descs |-> kept, err |-> NoErr]
        ELSE IF Len(sorted) = 0 THEN [ok |-> FALSE, descs |-> <<>>, err |-> ErrNoMatch]
        ELSE [ok |-> TRUE, descs |-> SubSeq(sorted, 1, IF Len(sorted) > n THEN n ELSE Len(sorted)),
              err |-> NoErr]

\* LimitManifests without its limit: every matching child of an index is descended
LimitManifestsAll(st, desc) == LimitTo(st, desc, Len(Children(st, desc).descs))

\* the second handler of the walk
LimitManifests(st, desc) == LimitTo(st, desc, 1)

\* the first handler without its test of the size
RecordAnySize(desc) == [ok |-> TRUE, err |-> NoErr]

\* the first handler: a negative size is an error, any other descriptor is recorded
RecordSize(desc) ==
    IF desc.size < 0 THEN [ok |-> FALSE, err |-> ErrAbout("Unknown", "invalid size", desc.digest)]
    ELSE [ok |-> TRUE, err |-> NoErr]

\* Handlers(...): the handlers in turn, the first error ends the call
HandleDesc(st, desc) ==
    LET rec == RecordSize(desc)
        lim == LimitManifests(st, desc)
    IN  IF ~rec.ok THEN [ok |-> FALSE, marked |-> FALSE, descs |-> <<>>, err |-> rec.err]
        ELSE [ok |-> lim.ok, marked |-> TRUE, descs |-> lim.descs, err |-> lim.err]

\* the stores are clients of the containerd daemon: a call made with a cancelled
\* context returns the error of the context
ErrCanceled == Err("Canceled", "context canceled")
\* ChildrenHandler reads the blob of a manifest or of a manifest list, of nothing else
Reads(desc) == desc.mediaType \in {"index", "manifest"}

\* the handlers under context c: neither Walk nor the first handler looks at the
\* context, the read of the second fails once it is cancelled
HandleCtx(c, st, desc) ==
    IF c.cancelled /\ RecordSize(desc).ok /\ Reads(desc)
    THEN [ok |-> FALSE, marked |-> TRUE, descs |-> <<>>, err |-> ErrCanceled]
    ELSE HandleDesc(st, desc)

\* a record that keeps the size a digest already has
MarkFirst(m, desc) ==
    [d \in DOMAIN m \cup {desc.digest} |-> IF d \in DOMAIN m THEN m[d] ELSE desc.size]

\* toDelete[desc.Digest] = uint64(desc.Size), reached with desc.Size >= 0 only
Mark(m, desc) == [d \in DOMAIN m \cup {desc.digest} |-> IF d = desc.digest THEN desc.size ELSE m[d]]

(***************************************************************************)
(* containerdStore.ImagesPrune, one step for each call of a store          *)
(***************************************************************************)
\* the failures of store calls one prune is made to meet
MaxFaults == 1
\* the records of the Image Index when prune is called
MaxImages == 2

tBad == Desc(dBad, "manifest", 3, NoPlatform)
\* a record whose own descriptor has a negative size
tNeg == Desc(dM3, "manifest", -2, NoPlatform)
PruneTargets == {tIdx, tM2, tBad, tNeg}

\* the names the records of a pruned index have
PruneNames == {NameOrder[i] : i \in 1..MaxImages}

InitPrune ==
    /\ index \in UNION {[S -> PruneTargets] : S \in SUBSET PruneNames}
    /\ store \in {AllDigests, AllDigests \ {dM2}}
    /\ res = NoCall
    /\ PruneIdle
    /\ ListIdle
    /\ RestIdle

\* loops run as one: what is marked is deleted before the next descriptor is walked
PhaseEager ==
    IF pc # "run" THEN pc
    ELSE IF DOMAIN toDelete \ swept # {} THEN "sweep"
    ELSE IF markIdx <= Len(images) THEN "mark"
    ELSE IF untagIdx <= Len(images) THEN "untag"
    ELSE "return"

\* the loop ImagesPrune is in
Phase ==
    IF pc # "run" THEN pc
    ELSE IF markIdx <= Len(images) THEN "mark"
    ELSE IF DOMAIN toDelete \ swept # {} THEN "sweep"
    ELSE IF untagIdx <= Len(images) THEN "untag"
    ELSE "return"

\* a store call may fail while the budget of failures lasts
MayFail(fails) == fails => faults < MaxFaults
Count(fails) == IF fails THEN faults + 1 ELSE faults

\* the values of the pruneFilters argument
Filters == {NoFilter, "label=old"}

\* a listing that applies the filter: no record of the index carries the label
PruneListFiltered(idx, f) == IF f = NoFilter THEN ListAll(idx) ELSE <<>>

\* the images ImagesPrune works on: is.List(ctx), with no query made of pruneFilters
PruneList(idx, f) == ListAll(idx)

\* a return that gives only the last error collected
ReturnLastError(rep, es) ==
    [returned |-> TRUE, report |-> rep, hasReport |-> TRUE,
     err |-> IF Len(es) >= 1 THEN es[Len(es)] ELSE NoErr, all |-> <<>>]

\* a return that gives no report when errors were collected
ReturnErrorOnly(rep, es) ==
    [returned |-> TRUE,
     report |-> IF Len(es) = 0 THEN rep ELSE [spaceReclaimed |-> 0, deleted |-> <<>>],
     hasReport |-> Len(es) = 0,
     err |-> IF Len(es) > 1 THEN Err("MultipleErrors", "")
             ELSE IF Len(es) = 1 THEN es[1] ELSE NoErr,
     all |-> IF Len(es) > 1 THEN es ELSE <<>>]

\* the last statement of ImagesPrune: the report with no error, with the one error,
\* or with MultipleErrors{all: errs}
ReturnOf(rep, es) ==
    [returned |-> TRUE, report |-> rep, hasReport |-> TRUE,
     err |-> IF Len(es) > 1 THEN Err("MultipleErrors", "")
             ELSE IF Len(es) = 1 THEN es[1] ELSE NoErr,
     all |-> IF Len(es) > 1 THEN es ELSE <<>>]

\* the return of a failed is.List: no report, the error wrapped
ReturnListFailed ==
    [returned |-> TRUE, report |-> [spaceReclaimed |-> 0, deleted |-> <<>>],
     hasReport |-> FALSE, err |-> Err("Unavailable", "Failed to list images"), all |-> <<>>]

\* an is.Delete that leaves the record in place
IndexDeleteNone(idx, name) == idx

\* is.Delete(ctx, name) that succeeds
IndexDelete(idx, name) == [n \in DOMAIN idx \ {name} |-> idx[n]]

\* a third loop that a failed is.Delete ends
UntagBreak(i, n, fails) == IF fails THEN n + 1 ELSE i + 1

\* the third loop after image i of n: on to the next image, also after an error
UntagNext(i, n, fails) == i + 1

\* ImagesPrune up to its first loop: is.List, and the empty report, map and errors
PruneStart(f, listFails) ==
    /\ pc = "idle"
    /\ MayFail(listFails)
    /\ faults' = Count(listFails)
    /\ filter' = f
    /\ IF listFails
       THEN /\ pc' = "done"
            /\ ret' = ReturnListFailed
            /\ UNCHANGED <<images, todo>>
       ELSE /\ pc' = "run"
            /\ images' = PruneList(index, f)
            /\ todo' = IF Len(PruneList(index, f)) > 0 THEN <<PruneList(index, f)[1].target>>
                       ELSE <<>>
            /\ UNCHANGED ret
    /\ UNCHANGED <<index, store, res, markIdx, toDelete, swept, untagIdx, errs, report,
                   visits, walks, calls, prior, lst, ctx, tag>>

\* the first loop: one call of the walk's handler on the next descriptor of the image
\* walked; the walk ends when nothing is left to handle or the handler fails, and the
\* loop goes on to the next image
WalkStep ==
    LET desc == Head(todo)
        h == HandleCtx(ctx, store, desc)
        rest == h.descs \o Tail(todo)
        ends == ~h.ok \/ rest = <<>>
    IN  /\ Phase = "mark"
        /\ visits' = Append(visits, [img |-> markIdx, desc |-> desc, err |-> h.err])
        /\ toDelete' = IF h.marked THEN Mark(toDelete, desc) ELSE toDelete
        /\ errs' = IF h.ok THEN errs ELSE Append(errs, h.err)
        /\ walks' = IF ends THEN Append(walks, IF h.ok THEN "ok" ELSE "failed") ELSE walks
        /\ markIdx' = IF ends THEN markIdx + 1 ELSE markIdx
        /\ todo' = IF ~ends THEN rest
                   ELSE IF markIdx + 1 <= Len(images) THEN <<images[markIdx + 1].target>>
                   ELSE <<>>
        /\ UNCHANGED <<index, store, res, pc, images, swept, untagIdx, report, ret, faults,
                       calls, filter, prior, lst, ctx, tag>>

\* the second loop, at key d of toDelete (a Go map: the keys come in any order):
\* store.Delete, then the size and the entry added to the report either way
SweepStep(d, fails) ==
    /\ Phase = "sweep"
    /\ d \in DOMAIN toDelete \ swept
    /\ (d \in store /\ ~ctx.cancelled) => MayFail(fails)
    /\ (d \notin store \/ ctx.cancelled) => fails
    /\ faults' = IF d \in store /\ ~ctx.cancelled THEN Count(fails) ELSE faults
    /\ store' = IF fails THEN store ELSE store \ {d}
    /\ errs' = IF fails THEN Append(errs, ErrAbout("Unknown", "Failed to delete", d)) ELSE errs
    /\ report' = [spaceReclaimed |-> report.spaceReclaimed + toDelete[d],
                  deleted |-> Append(report.deleted, [deleted |-> d, untagged |-> NoName])]
    /\ swept' = swept \cup {d}
    /\ calls' = Append(calls, [op |-> "store.Delete", arg |-> d, ok |-> ~fails])
    /\ UNCHANGED <<index, res, pc, images, markIdx, todo, toDelete, untagIdx, ret, visits, walks,
                   filter, prior, lst, ctx, tag>>

\* the third loop: is.Delete of the next listed name; a failure is collected and the
\* name gets no entry
UntagStep(fails) ==
    LET name == images[untagIdx].name
    IN  /\ Phase = "untag"
        /\ (name \in DOMAIN index /\ ~ctx.cancelled) => MayFail(fails)
        /\ (name \notin DOMAIN index \/ ctx.cancelled) => fails
        /\ faults' = IF name \in DOMAIN index /\ ~ctx.cancelled THEN Count(fails) ELSE faults
        /\ index' = IF fails THEN index ELSE IndexDelete(index, name)
        /\ errs' = IF fails THEN Append(errs, ErrAbout("Unknown", "image delete failed", name))
                   ELSE errs
        /\ report' = IF fails THEN report
                     ELSE [report EXCEPT !.deleted = Append(@, [deleted |-> NoDigest, untagged |-> name])]
        /\ untagIdx' = UntagNext(untagIdx, Len(images), fails)
        /\ calls' = Append(calls, [op |-> "is.Delete", arg |-> name, ok |-> ~fails])
        /\ UNCHANGED <<store, res, pc, images, markIdx, todo, toDelete, swept, ret, visits, walks,
                       filter, prior, lst, ctx, tag>>

\* the end of ImagesPrune: the report with no error, the one error, or MultipleErrors
PruneReturn ==
    /\ Phase = "return"
    /\ pc' = "done"
    /\ ret' = ReturnOf(report, errs)
    /\ UNCHANGED <<index, store, res, images, markIdx, todo, toDelete, swept, untagIdx, errs,
                   report, visits, walks, faults, calls, filter, prior, lst, ctx, tag>>

\* the steps of a prune that has started
PruneSteps ==
    \/ WalkStep
    \/ \E d \in AllDigests, f \in BOOLEAN : SweepStep(d, f)
    \/ \E f \in BOOLEAN : UntagStep(f)
    \/ PruneReturn

NextPrune ==
    \/ \E l \in BOOLEAN : PruneStart(NoFilter, l)
    \/ PruneSteps

SpecPrune == InitPrune /\ [][NextPrune]_vars

\* the prunes one run makes in sequence
MaxPrunes == 2

\* ImagesPrune called again after it returned, nothing written in between: the stores
\* are as the earlier prune left them
PruneAgain ==
    /\ pc = "done"
    /\ Len(prior) + 1 < MaxPrunes
    /\ prior' = Append(prior, [ret |-> ret, calls |-> calls, images |-> images])
    /\ pc' = "idle" /\ images' = <<>> /\ markIdx' = 1 /\ todo' = <<>>
    /\ toDelete' = EmptyMap /\ swept' = {} /\ untagIdx' = 1 /\ errs' = <<>>
    /\ report' = [spaceReclaimed |-> 0, deleted |-> <<>>]
    /\ ret' = NoReturn /\ visits' = <<>> /\ walks' = <<>> /\ calls' = <<>>
    /\ filter' = NoFilter
    /\ UNCHANGED <<index, store, res, faults, lst, ctx, tag>>

NextPruneTwice ==
    \/ \E l \in BOOLEAN : PruneStart(NoFilter, l)
    \/ PruneSteps
    \/ PruneAgain

\* the records of the index when prune is called twice
TwiceTargets == {tM2, tBad}

InitPruneTwice ==
    /\ index \in UNION {[S -> TwiceTargets] : S \in SUBSET PruneNames}
    /\ store \in {AllDigests, AllDigests \ {dM2}}
    /\ res = NoCall
    /\ PruneIdle
    /\ ListIdle
    /\ RestIdle

SpecPruneTwice == InitPruneTwice /\ [][NextPruneTwice]_vars

\* the records of the index when a prune with a filter is called
FilteredTargets == {tIdx, tBad}

InitPruneFiltered ==
    /\ index \in UNION {[S -> FilteredTargets] : S \in SUBSET PruneNames}
    /\ store \in {AllDigests, AllDigests \ {dM2}}
    /\ res = NoCall
    /\ PruneIdle
    /\ ListIdle
    /\ RestIdle

NextPruneFiltered ==
    \/ \E f \in Filters, l \in BOOLEAN : PruneStart(f, l)
    \/ PruneSteps

SpecPruneFiltered == InitPruneFiltered /\ [][NextPruneFiltered]_vars

\* the caller cancels the context of a prune that is in its first loop
Cancel ==
    /\ Phase = "mark"
    /\ ~ctx.cancelled
    /\ ctx' = [cancelled |-> TRUE, visits |-> Len(visits), calls |-> Len(calls)]
    /\ UNCHANGED <<index, store, res, pruneVars, lst, tag>>

NextPruneCancel ==
    \/ \E l \in BOOLEAN : PruneStart(NoFilter, l)
    \/ PruneSteps
    \/ Cancel

SpecPruneCancel == InitPruneTwice /\ [][NextPruneCancel]_vars

(***************************************************************************)
(* Properties of the walk and of prune                                     *)
(***************************************************************************)
\* the descriptors the walk of image i was handed, in order
VisitsOf(i) == SelectSeq(visits, LAMBDA v : v.img = i)
VisitedDigests(i) == {VisitsOf(i)[k].desc.digest : k \in 1..Len(VisitsOf(i))}
WalkEnded(i) == i <= Len(walks)

\* the entries of the manifest list root, and the first of them whose declared
\* platform the matcher matches (0: none)
Entries(root) == Blob(root.digest).manifests
FirstMatching(root) ==
    IF \E j \in 1..Len(Entries(root)) : MatchStrict(DefaultPlatform, Entries(root)[j].platform)
    THEN CHOOSE j \in 1..Len(Entries(root)) :
            /\ MatchStrict(DefaultPlatform, Entries(root)[j].platform)
            /\ \A l \in 1..(j - 1) : ~MatchStrict(DefaultPlatform, Entries(root)[l].platform)
    ELSE 0
\* the digests of manifest descriptor m, of its config and of its layers
Subtree(m) ==
    {m.digest, Blob(m.digest).config.digest}
        \cup {Blob(m.digest).layers[k].digest : k \in 1..Len(Blob(m.digest).layers)}
\* what one walk of the list may visit: the list and the subtree of that one child
Allowed(root) ==
    {root.digest} \cup (IF FirstMatching(root) = 0 THEN {}
                        ELSE Subtree(Entries(root)[FirstMatching(root)]))

\* C9: the walk of a root that is a manifest list visits the list, and the manifest,
\* config and layers of at most one child, the first child matching the platform
\* matcher; it visits nothing that belongs only to another child, and a walk that
\* ends without error has visited all of that
C9_OneManifest ==
    \A i \in 1..Len(images) :
        images[i].target.mediaType = "index" =>
            /\ VisitedDigests(i) \subseteq Allowed(images[i].target)
            /\ Cardinality({k \in 1..Len(VisitsOf(i)) : VisitsOf(i)[k].desc.mediaType = "manifest"}) <= 1
            /\ (WalkEnded(i) /\ walks[i] = "ok") => VisitedDigests(i) = Allowed(images[i].target)

C9_Witness ==
    \E i \in 1..Len(images) :
        /\ images[i].target = tIdx /\ WalkEnded(i) /\ walks[i] = "ok"
        /\ VisitedDigests(i) = {dIdx, dM2, dC2, dL1}
        /\ dM3 \notin DOMAIN toDelete /\ dM1 \notin DOMAIN toDelete

\* visit k handed the walk a descriptor of negative size
NegativeVisit(k) == visits[k].desc.size < 0
CollectedAbout(about) == \E e \in 1..Len(errs) : errs[e].about = about

\* C10: a descriptor of negative size ends the walk of its image with an error that
\* is collected, and is not put in the delete-set; prune goes on: every image is
\* walked, and when prune returns a delete was issued for every marked digest and for
\* every listed name (gone from its store unless that delete failed, which is collected)
C10_NegativeSize ==
    /\ \A k \in 1..Len(visits) : NegativeVisit(k) =>
          /\ \A l \in (k + 1)..Len(visits) : visits[l].img # visits[k].img
          /\ WalkEnded(visits[k].img) /\ walks[visits[k].img] = "failed"
          /\ \E e \in 1..Len(errs) :
                errs[e].msg = "invalid size" /\ errs[e].about = visits[k].desc.digest
    /\ \A d \in DOMAIN toDelete :
          \E k \in 1..Len(visits) :
              /\ visits[k].desc.digest = d /\ visits[k].desc.size = toDelete[d]
              /\ ~NegativeVisit(k)
    /\ (pc = "done" /\ ret.hasReport /\ \E k \in 1..Len(visits) : NegativeVisit(k)) =>
          /\ \A i \in 1..Len(images) : WalkEnded(i) /\ VisitsOf(i) # <<>>
          /\ \A d \in DOMAIN toDelete : d \in swept /\ (d \notin store \/ CollectedAbout(d))
          /\ \A i \in 1..Len(images) :
                images[i].name \notin DOMAIN index \/ CollectedAbout(images[i].name)

C10_Witness ==
    /\ pc = "done" /\ Len(images) = 2
    /\ images[1].target = tBad /\ walks[1] = "failed"
    /\ images[2].target = tM2 /\ walks[2] = "ok"
    /\ dL2 \notin DOMAIN toDelete
    /\ {dBad, dC2, dM2, dL1} \cap store = {}
    /\ DOMAIN index = {}
    /\ ret.err.msg = "invalid size"

(***************************************************************************)
(* Properties of the return, the report and the deletes of prune           *)
(***************************************************************************)
EmptyReport == [spaceReclaimed |-> 0, deleted |-> <<>>]
\* ImagesPrune returned through its last statement
Returned == pc = "done" /\ ret.hasReport

\* the calls of operation op among cs, in the order they were made
CallsOf(cs, op) == SelectSeq(cs, LAMBDA c : c.op = op)
AllOk(cs) == \A k \in 1..Len(cs) : cs[k].ok

\* C11: when prune is run twice with nothing written in between, the second run
\* returns an empty report and a nil error, whatever the index and the store held and
\* whatever walks and blob deletes of the first run failed (the Image Index answering
\* the calls of both runs)
C11_SecondRunEmpty ==
    (/\ Len(prior) >= 1 /\ Returned
     /\ prior[Len(prior)].ret.hasReport
     /\ AllOk(CallsOf(prior[Len(prior)].calls, "is.Delete")))
        => /\ ret.report = EmptyReport
           /\ ret.err = NoErr
           /\ images = <<>> /\ calls = <<>>

C11_Witness ==
    /\ Len(prior) = 1 /\ Returned
    /\ Len(prior[1].images) = 2
    /\ prior[1].ret.err.class = "MultipleErrors"
    /\ prior[1].ret.report.spaceReclaimed > 0
    /\ AllOk(CallsOf(prior[1].calls, "is.Delete"))
    /\ ret.report = EmptyReport /\ ret.err = NoErr

\* the error a failed delete is collected as
ErrOfCall(c) ==
    IF c.op = "store.Delete" THEN ErrAbout("Unknown", "Failed to delete", c.arg)
    ELSE ErrAbout("Unknown", "image delete failed", c.arg)
\* the errors of the events of this prune, in the order of the events: the walks that
\* failed, then the deletes that failed
FailedVisits == SelectSeq(visits, LAMBDA v : v.err # NoErr)
FailedCalls == SelectSeq(calls, LAMBDA c : ~c.ok)
Collected ==
    [k \in 1..Len(FailedVisits) |-> FailedVisits[k].err]
        \o [k \in 1..Len(FailedCalls) |-> ErrOfCall(FailedCalls[k])]

\* C12: prune returns nil exactly when no walk, no blob delete and no name delete
\* failed; the error itself when exactly one did; and with two or more, one
\* MultipleErrors holding all of them in the order they were collected
C12_ErrorReturned ==
    Returned =>
        /\ ret.err = NoErr <=> Collected = <<>>
        /\ Len(Collected) = 1 => ret.err = Collected[1] /\ ret.all = <<>>
        /\ Len(Collected) >= 2 => ret.err.class = "MultipleErrors" /\ ret.all = Collected

C12_Witness ==
    /\ Returned /\ ret.err.class = "MultipleErrors" /\ Len(ret.all) = 4
    /\ ret.all[1].msg = "invalid size"
    /\ ret.all[2].msg = "content not found"
    /\ ret.all[3].msg = "Failed to delete"
    /\ ret.all[4].msg = "image delete failed"

RECURSIVE ReportOf(_)
\* the entries the loops add for the deletes cs: one for every store.Delete, failed
\* or not, and one for every is.Delete that succeeded
ReportOf(cs) ==
    IF cs = <<>> THEN <<>>
    ELSE LET c == Head(cs)
         IN  (IF c.op = "store.Delete" THEN <<[deleted |-> c.arg, untagged |-> NoName]>>
              ELSE IF c.ok THEN <<[deleted |-> NoDigest, untagged |-> c.arg]>>
              ELSE <<>>) \o ReportOf(Tail(cs))
RECURSIVE SpaceOf(_)
\* the sizes the second loop adds for the deletes cs
SpaceOf(cs) ==
    IF cs = <<>> THEN 0
    ELSE (IF Head(cs).op = "store.Delete" THEN toDelete[Head(cs).arg] ELSE 0) + SpaceOf(Tail(cs))
\* the report accumulated by the deletes made so far
Accumulated == [spaceReclaimed |-> SpaceOf(calls), deleted |-> ReportOf(calls)]

\* C13 as stated: every return of prune with an error carries a report, the one
\* accumulated up to that point
C13_ReportKept ==
    (ret.returned /\ ret.err # NoErr) => ret.hasReport /\ ret.report = Accumulated

ListFailed == ret.returned /\ ret.err.msg = "Failed to list images"

\* C13 amended: a return of prune with an error carries the report accumulated up to
\* that point, except the return of a failed listing, which carries no report
C13_ReportKeptAfterListing ==
    /\ (ret.returned /\ ret.err # NoErr /\ ~ListFailed) =>
          ret.hasReport /\ ret.report = Accumulated
    /\ ListFailed => ~ret.hasReport /\ calls = <<>> /\ visits = <<>>
    /\ report = Accumulated

C13_Witness ==
    /\ Returned /\ ret.err # NoErr
    /\ ret.report.spaceReclaimed > 0
    /\ \E k \in 1..Len(ret.report.deleted) : ret.report.deleted[k].untagged # NoName
    /\ ~AllOk(calls)

\* C14: an Image Index delete is issued for every image of the listing, in its order,
\* whatever walks and blob deletes failed; a name delete that fails is collected and
\* the deletes of the remaining names follow
C14_EveryNameDeleted ==
    LET dels == CallsOf(calls, "is.Delete")
    IN  /\ Len(dels) <= Len(images)
        /\ \A k \in 1..Len(dels) : dels[k].arg = images[k].name
        /\ \A k \in 1..Len(dels) : ~dels[k].ok =>
              \E e \in 1..Len(errs) : errs[e] = ErrOfCall(dels[k])
        /\ Returned => Len(dels) = Len(images)

C14_Witness ==
    LET dels == CallsOf(calls, "is.Delete")
    IN  /\ Returned /\ Len(images) = 2
        /\ walks[1] = "failed"
        /\ ~AllOk(CallsOf(calls, "store.Delete"))
        /\ Len(dels) = 2 /\ ~dels[1].ok /\ dels[2].ok
        /\ images[2].name \notin DOMAIN index

\* the visits that recorded digest d: those the size test let through
MarksOf(d) == {k \in 1..Len(visits) : visits[k].desc.digest = d /\ visits[k].desc.size >= 0}
Max(S) == CHOOSE m \in S : \A n \in S : n <= m
RECURSIVE SumSizes(_, _)
\* the sum of the sizes map m records for the digests of S
SumSizes(m, S) ==
    IF S = {} THEN 0
    ELSE LET d == CHOOSE x \in S : TRUE IN m[d] + SumSizes(m, S \ {d})
DeletedEntries(d) ==
    {k \in 1..Len(report.deleted) : report.deleted[k].deleted = d}
DeletesOf(d) == {k \in 1..Len(calls) : calls[k].op = "store.Delete" /\ calls[k].arg = d}

\* C15: the delete-set holds each recorded digest once, with the size of its last
\* visit; each digest is deleted from the Content Store at most once, and when prune
\* returns exactly once, with one deleted entry in the report, spaceReclaimed being
\* the sum of the recorded sizes over the distinct digests
C15_CountedOnce ==
    /\ DOMAIN toDelete = {d \in AllDigests : MarksOf(d) # {}}
    /\ \A d \in DOMAIN toDelete : toDelete[d] = visits[Max(MarksOf(d))].desc.size
    /\ \A d \in AllDigests :
          /\ Cardinality(DeletesOf(d)) <= 1
          /\ Cardinality(DeletedEntries(d)) = Cardinality(DeletesOf(d))
          /\ DeletesOf(d) # {} => d \in DOMAIN toDelete
    /\ report.spaceReclaimed = SumSizes(toDelete, swept)
    /\ Returned =>
          /\ swept = DOMAIN toDelete
          /\ \A d \in DOMAIN toDelete : Cardinality(DeletesOf(d)) = 1
          /\ ret.report.spaceReclaimed = SumSizes(toDelete, DOMAIN toDelete)
          /\ Cardinality({k \in 1..Len(ret.report.deleted) :
                             ret.report.deleted[k].deleted # NoDigest})
                = Cardinality(DOMAIN toDelete)

C15_Witness ==
    /\ Returned /\ Len(images) = 2
    /\ images[1].target = tIdx /\ images[2].target = tM2
    /\ walks = <<"ok", "ok">>
    /\ Cardinality(MarksOf(dM2)) = 2 /\ Cardinality(MarksOf(dL1)) = 2
    /\ toDelete[dM2] = 3
    /\ ret.report.spaceReclaimed = 4 + 3 + 1 + 5

RECURSIVE WalkAll(_, _, _)
\* one whole walk as a function of the store: the delete-set after it and its error
WalkAll(st, descs, m) ==
    IF descs = <<>> THEN [m |-> m, err |-> NoErr]
    ELSE LET h == HandleDesc(st, Head(descs))
             m2 == IF h.marked THEN Mark(m, Head(descs)) ELSE m
         IN  IF ~h.ok THEN [m |-> m2, err |-> h.err]
             ELSE WalkAll(st, h.descs \o Tail(descs), m2)
RECURSIVE MarkAll(_, _, _, _)
\* the first loop as a function of the records and the store, with no filter among
\* its arguments: the delete-set and the errors it leaves
MarkAll(imgs, st, m, es) ==
    IF imgs = <<>> THEN [m |-> m, errs |-> es]
    ELSE LET w == WalkAll(st, <<Head(imgs).target>>, m)
         IN  MarkAll(Tail(imgs), st, w.m, IF w.err = NoErr THEN es ELSE Append(es, w.err))

\* no delete of this prune has been issued: the stores are as prune found them
Untouched == pc = "run" /\ calls = <<>>

\* C16: whatever the filter argument, prune lists every record of the Image Index,
\* marks what the walks of all of them mark, and deletes, reports and returns what
\* follows from that: the outcome is that of the function of the index and the store
\* alone, the same for any two filter values
C16_FilterIgnored ==
    /\ Untouched => images = ListAll(index)
    /\ (Untouched /\ Phase # "mark") =>
          /\ toDelete = MarkAll(ListAll(index), store, EmptyMap, <<>>).m
          /\ errs = MarkAll(ListAll(index), store, EmptyMap, <<>>).errs
          /\ Len(walks) = Len(ListAll(index))
    /\ Returned =>
          /\ swept = DOMAIN toDelete
          /\ Len(CallsOf(calls, "is.Delete")) = Len(images)
          /\ ret.report = Accumulated
          /\ ret.err = NoErr <=> Collected = <<>>

C16_Witness ==
    /\ filter # NoFilter /\ Returned
    /\ Len(images) = 2 /\ DOMAIN index = {}
    /\ ret.report.spaceReclaimed > 0 /\ ret.err # NoErr

(***************************************************************************)
(* containerdStore.Images: the listing with virtual and shared sizes       *)
(***************************************************************************)
\* the images one listing returns
MaxBatch == 3

\* identity.ChainIDs: the chain ID at k is the hash of the chain ID at k - 1 and the
\* diff ID at k, so it names the diff IDs up to k, and is modelled as that sequence
ChainIDs(diffIDs) == [k \in 1..Len(diffIDs) |-> SubSeq(diffIDs, 1, k)]

\* the diff ID sequences of the images listed
RootFSs == { <<>>, <<"x">>, <<"x", "y">>, <<"x", "w">>, <<"z">> }
\* an image of the listing: its diff IDs, and the call on it that fails, if any
ListedImages ==
    { [rootfs |-> r, fault |-> "none"] : r \in RootFSs }
        \cup { [rootfs |-> <<"x">>, fault |-> "rootfs"], [rootfs |-> <<"z">>, fault |-> "size"] }
\* the chain IDs a snapshot exists for
AllChains == UNION { {ChainIDs(r)[k] : k \in 1..Len(r)} : r \in RootFSs }
\* snapshotter.Usage(ctx, chainID).Size
Usage(c) ==
    CASE c = <<"x">> -> 10
      [] c = <<"x", "y">> -> 20
      [] c = <<"x", "w">> -> 7
      [] c = <<"z">> -> 5
      [] OTHER -> 0

ErrUsage(c) == ErrAbout("cerrdefs.NotFound", "snapshot does not exist", c)
ErrRootFS == Err("cerrdefs.NotFound", "content not found")
ErrFilter == Err("InvalidParameter", "invalid reference format")

\* the size cache and the history of the snapshotter's calls and of the cache's answers
NoSizes == [cache |-> [c \in {} |-> 0], calls |-> <<>>, hits |-> <<>>]

\* a size function that never writes its cache
SnapshotSizeNoCache(failing, sz, d) ==
    IF d \in failing
    THEN [ok |-> FALSE, size |-> 0, sz |-> [sz EXCEPT !.calls = Append(@, d)]]
    ELSE [ok |-> TRUE, size |-> Usage(d), sz |-> [sz EXCEPT !.calls = Append(@, d)]]

\* snapshotSizeFn: the cached size, or the snapshotter's, cached when it answers
SnapshotSizeFn(failing, sz, d) ==
    IF d \in DOMAIN sz.cache
    THEN [ok |-> TRUE, size |-> sz.cache[d],
          sz |-> [sz EXCEPT !.hits = Append(@, [chain |-> d, size |-> sz.cache[d]])]]
    ELSE IF d \in failing
    THEN [ok |-> FALSE, size |-> 0, sz |-> [sz EXCEPT !.calls = Append(@, d)]]
    ELSE [ok |-> TRUE, size |-> Usage(d),
          sz |-> [cache |-> [c \in DOMAIN sz.cache \cup {d} |->
                                 IF c = d THEN Usage(d) ELSE sz.cache[c]],
                  calls |-> Append(sz.calls, d), hits |-> sz.hits]]

RECURSIVE VirtualFrom(_, _, _, _)
\* the loop of computeVirtualSize from the sum acc on
VirtualFrom(failing, sz, chainIDs, acc) ==
    IF chainIDs = <<>> THEN [ok |-> TRUE, size |-> acc, sz |-> sz]
    ELSE LET s == SnapshotSizeFn(failing, sz, Head(chainIDs))
         IN  IF ~s.ok THEN [ok |-> FALSE, size |-> acc, sz |-> s.sz]
             ELSE VirtualFrom(failing, s.sz, Tail(chainIDs), acc + s.size)

\* a virtual size that is the size of the top snapshot alone
ComputeVirtualTop(failing, sz, chainIDs) ==
    IF chainIDs = <<>> THEN [ok |-> TRUE, size |-> 0, sz |-> sz]
    ELSE VirtualFrom(failing, sz, <<chainIDs[Len(chainIDs)]>>, 0)

\* computeVirtualSize
ComputeVirtualSize(failing, sz, chainIDs) == VirtualFrom(failing, sz, chainIDs, 0)

\* layers[chainID] of a Go map: 0 for a key it does not hold
LayerCount(layers, c) == IF c \in DOMAIN layers THEN layers[c] ELSE 0

RECURSIVE SharedAllFrom(_, _, _, _, _)
\* a shared size that skips no chain ID
SharedAllFrom(failing, sz, chainIDs, layers, acc) ==
    IF chainIDs = <<>> THEN [ok |-> TRUE, size |-> acc, sz |-> sz]
    ELSE LET s == SnapshotSizeFn(failing, sz, Head(chainIDs))
         IN  IF ~s.ok THEN [ok |-> FALSE, size |-> 0, sz |-> s.sz]
             ELSE SharedAllFrom(failing, s.sz, Tail(chainIDs), layers, acc + s.size)
ComputeSharedAll(failing, sz, chainIDs, layers) == SharedAllFrom(failing, sz, chainIDs, layers, 0)

RECURSIVE SharedPerRefFrom(_, _, _, _, _)
\* a shared size that charges a chain ID once for each image that uses it
SharedPerRefFrom(failing, sz, chainIDs, layers, acc) ==
    IF chainIDs = <<>> THEN [ok |-> TRUE, size |-> acc, sz |-> sz]
    ELSE LET c == Head(chainIDs)
             s == SnapshotSizeFn(failing, sz, c)
         IN  IF LayerCount(layers, c) = 1
             THEN SharedPerRefFrom(failing, sz, Tail(chainIDs), layers, acc)
             ELSE IF ~s.ok THEN [ok |-> FALSE, size |-> 0, sz |-> s.sz]
             ELSE SharedPerRefFrom(failing, s.sz, Tail(chainIDs), layers,
                                   acc + s.size * LayerCount(layers, c))
ComputeSharedPerRef(failing, sz, chainIDs, layers) ==
    SharedPerRefFrom(failing, sz, chainIDs, layers, 0)

RECURSIVE SharedFrom(_, _, _, _, _)
\* the loop of computeSharedSize from the sum acc on: a chain ID counted once is
\* skipped, an error of the size function gives 0 and the error
SharedFrom(failing, sz, chainIDs, layers, acc) ==
    IF chainIDs = <<>> THEN [ok |-> TRUE, size |-> acc, sz |-> sz]
    ELSE LET c == Head(chainIDs)
             s == SnapshotSizeFn(failing, sz, c)
         IN  IF LayerCount(layers, c) = 1
             THEN SharedFrom(failing, sz, Tail(chainIDs), layers, acc)
             ELSE IF ~s.ok THEN [ok |-> FALSE, size |-> 0, sz |-> s.sz]
             ELSE SharedFrom(failing, s.sz, Tail(chainIDs), layers, acc + s.size)

\* computeSharedSize
ComputeSharedSize(failing, sz, chainIDs, layers) == SharedFrom(failing, sz, chainIDs, layers, 0)

RECURSIVE CountLayers(_, _)
\* layers[id] = layers[id] + 1 for every chain ID of an image
CountLayers(layers, chainIDs) ==
    IF chainIDs = <<>> THEN layers
    ELSE LET c == Head(chainIDs)
         IN  CountLayers([d \in DOMAIN layers \cup {c} |->
                              IF d = c THEN LayerCount(layers, c) + 1 ELSE layers[d]],
                         Tail(chainIDs))

\* a nil entry of root, and the entry &chainIDs
NilRoot == [set |-> FALSE, chainIDs |-> <<>>]
RootOf(chainIDs) == [set |-> TRUE, chainIDs |-> chainIDs]

\* the summary appended for image i: SharedSize -1 until the second loop sets it
Summary(i, virtualSize) == [img |-> i, virtualSize |-> virtualSize, sharedSize |-> -1]

\* the results of Images: the summaries with a nil error, nil with an error, or the
\* runtime panic of a nil dereference or of an index out of range
ListOk(acc) == [outcome |-> "ok", err |-> NoErr, acc |-> acc]
\* an error return that keeps the summaries built so far
ListPartial(e, acc) == [outcome |-> "ok", err |-> e, acc |-> acc]
ListErr(e, acc) == [outcome |-> "err", err |-> e, acc |-> acc]
ListPanic(acc) == [outcome |-> "panic", err |-> NoErr, acc |-> acc]

RECURSIVE FirstLoop(_, _, _, _, _, _)
\* the loop IMAGES from image i on: the filters, RootFS, the chain IDs and their
\* counts, Size, the virtual size, the summary
FirstLoop(batch, keep, shared, failing, i, acc) ==
    IF i > Len(batch) THEN ListOk(acc)
    ELSE IF i \notin keep THEN FirstLoop(batch, keep, shared, failing, i + 1, acc)
    ELSE IF batch[i].fault = "rootfs" THEN ListErr(ErrRootFS, acc)
    ELSE LET chainIDs == ChainIDs(batch[i].rootfs)
             counted == IF shared
                        THEN [acc EXCEPT !.root[i] = RootOf(chainIDs),
                                         !.layers = CountLayers(@, chainIDs)]
                        ELSE acc
             v == ComputeVirtualSize(failing, counted.sz, chainIDs)
         IN  IF batch[i].fault = "size" THEN ListErr(ErrRootFS, counted)
             ELSE IF ~v.ok
             THEN ListErr(ErrUsage(v.sz.calls[Len(v.sz.calls)]), [counted EXCEPT !.sz = v.sz])
             ELSE FirstLoop(batch, keep, shared, failing, i + 1,
                            [counted EXCEPT !.sz = v.sz,
                                            !.ret = Append(@, Summary(i, v.size))])

RECURSIVE SecondLoop(_, _, _)
\* the loop over root from entry i on: *chainIDs, the shared size, ret[i].SharedSize
SecondLoop(failing, i, acc) ==
    IF i > Len(acc.root) THEN ListOk(acc)
    ELSE IF ~acc.root[i].set THEN ListPanic(acc)
    ELSE LET sh == ComputeSharedSize(failing, acc.sz, acc.root[i].chainIDs, acc.layers)
         IN  IF ~sh.ok
             THEN ListErr(ErrUsage(sh.sz.calls[Len(sh.sz.calls)]), [acc EXCEPT !.sz = sh.sz])
             ELSE IF i > Len(acc.ret) THEN ListPanic([acc EXCEPT !.sz = sh.sz])
             ELSE SecondLoop(failing, i + 1,
                             [acc EXCEPT !.sz = sh.sz, !.ret[i].sharedSize = sh.size])

\* containerdStore.Images on the images batch, the filters keeping the images keep
Images(batch, failing, shared, keep, filterFails) ==
    LET start == [sz |-> NoSizes, ret |-> <<>>,
                  root |-> IF shared THEN [i \in 1..Len(batch) |-> NilRoot] ELSE <<>>,
                  layers |-> [c \in {} |-> 0]]
        first == FirstLoop(batch, keep, shared, failing, 1, start)
        out == IF filterFails THEN ListErr(ErrFilter, start)
               ELSE IF first.outcome # "ok" \/ ~shared THEN first
               ELSE SecondLoop(failing, 1, first.acc)
    IN  [called |-> TRUE, shared |-> shared, keep |-> keep, outcome |-> out.outcome,
         summaries |-> IF out.outcome = "ok" THEN out.acc.ret ELSE <<>>,
         err |-> out.err, usageCalls |-> out.acc.sz.calls, hits |-> out.acc.sz.hits]

\* the chain IDs the snapshotter fails on
Failings == { {}, {<<"x">>}, {<<"x", "y">>}, {<<"z">>} }

InitImages ==
    /\ index = [n \in {} |-> NoDesc]
    /\ store = AllDigests
    /\ res = NoCall
    /\ PruneIdle
    /\ \E b \in UNION {[1..k -> ListedImages] : k \in 0..MaxBatch}, f \in Failings :
          lst = [batch |-> b, failing |-> f, call |-> NoListCall]
    /\ RestIdle

\* a call of Images: opts.SharedSize, and opts.Filters by the images its filters keep
CallImages(shared, keep, filterFails) ==
    /\ ~lst.call.called
    /\ lst' = [lst EXCEPT !.call = Images(lst.batch, lst.failing, shared, keep, filterFails)]
    /\ UNCHANGED <<index, store, res, pruneVars, ctx, tag>>

NextImages ==
    \E shared \in BOOLEAN, keep \in SUBSET (1..Len(lst.batch)), filterFails \in BOOLEAN :
        CallImages(shared, keep, filterFails)

SpecImages == InitImages /\ [][NextImages]_vars

(***************************************************************************)
(* Properties of the sizes of a listing                                    *)
(***************************************************************************)
\* Images returned summaries
Listed == lst.call.called /\ lst.call.outcome = "ok"
\* the images the filters kept, in the order of the listing
KeptSeq == SelectSeq([i \in 1..Len(lst.batch) |-> i], LAMBDA i : i \in lst.call.keep)
\* the chain IDs of the chain sequence of image i
ChainSet(i) == {ChainIDs(lst.batch[i].rootfs)[k] : k \in 1..Len(lst.batch[i].rootfs)}
RECURSIVE SumUsage(_)
\* the sum of the snapshotter's sizes of the chain IDs S
SumUsage(S) ==
    IF S = {} THEN 0 ELSE LET c == CHOOSE x \in S : TRUE IN Usage(c) + SumUsage(S \ {c})
\* the images of the batch whose chain sequence holds c
RefCount(c) == Cardinality({j \in lst.call.keep : c \in ChainSet(j)})
Occurrences(q, c) == Cardinality({k \in 1..Len(q) : q[k] = c})

\* C17: a listing returns one summary for each image, in order, whose virtual size
\* is the sum of the snapshotter's sizes of the chain IDs of that image (0 for none);
\* a chain ID that several images hold is charged in full to each
C17_VirtualSize ==
    Listed =>
        /\ Len(lst.call.summaries) = Len(KeptSeq)
        /\ \A k \in 1..Len(lst.call.summaries) :
              /\ lst.call.summaries[k].img = KeptSeq[k]
              /\ lst.call.summaries[k].virtualSize = SumUsage(ChainSet(KeptSeq[k]))

C17_Witness ==
    /\ Listed /\ Len(lst.call.summaries) = 3
    /\ lst.batch[1].rootfs = <<"x", "y">> /\ lst.batch[2].rootfs = <<"x", "y">>
    /\ lst.batch[3].rootfs = <<>>
    /\ lst.call.summaries[1].virtualSize = 30 /\ lst.call.summaries[2].virtualSize = 30
    /\ lst.call.summaries[3].virtualSize = 0

\* C18: with shared size requested, the shared size of every image is the sum of the
\* snapshotter's sizes of those of its chain IDs that more than one image of the
\* whole batch holds, later images included; a chain ID of one image alone adds 0
C18_SharedSize ==
    (Listed /\ lst.call.shared) =>
        \A k \in 1..Len(lst.call.summaries) :
            lst.call.summaries[k].sharedSize =
                SumUsage({c \in ChainSet(lst.call.summaries[k].img) : RefCount(c) > 1})

C18_Witness ==
    /\ Listed /\ lst.call.shared /\ Len(lst.call.summaries) = 3
    /\ lst.batch[1].rootfs = <<"z">>
    /\ lst.batch[2].rootfs = <<"x", "y">> /\ lst.batch[3].rootfs = <<"x", "y">>
    /\ lst.call.summaries[1].sharedSize = 0
    /\ lst.call.summaries[2].sharedSize = 30 /\ lst.call.summaries[3].sharedSize = 30

\* C19: with shared size requested, no image of a listing has a shared size above
\* its virtual size
C19_SharedAtMostVirtual ==
    (Listed /\ lst.call.shared) =>
        \A k \in 1..Len(lst.call.summaries) :
            /\ lst.call.summaries[k].sharedSize >= 0
            /\ lst.call.summaries[k].sharedSize <= lst.call.summaries[k].virtualSize

C19_Witness ==
    /\ Listed /\ lst.call.shared
    /\ \E k \in 1..Len(lst.call.summaries) :
          /\ lst.call.summaries[k].sharedSize = 10 /\ lst.call.summaries[k].virtualSize = 17
    /\ \E k \in 1..Len(lst.call.summaries) :
          /\ lst.call.summaries[k].sharedSize = 30 /\ lst.call.summaries[k].virtualSize = 30

RECURSIVE Requests(_)
\* the chain IDs the virtual pass asks the size of, over the images is
Requests(is) == IF is = <<>> THEN 0 ELSE Len(lst.batch[Head(is)].rootfs) + Requests(Tail(is))
SumUsageRequests == Requests(KeptSeq)

\* C20: in one call of Images the snapshotter is asked at most once for a chain ID,
\* and when the call returns summaries exactly once for every chain ID of the images
\* listed and for no other; every other request, of the virtual and of the shared
\* pass, is answered by the cache with the size the snapshotter gave
C20_OracleOnce ==
    /\ \A c \in AllChains : Occurrences(lst.call.usageCalls, c) <= 1
    /\ \A h \in 1..Len(lst.call.hits) :
          /\ Occurrences(lst.call.usageCalls, lst.call.hits[h].chain) = 1
          /\ lst.call.hits[h].size = Usage(lst.call.hits[h].chain)
    /\ Listed =>
          /\ \A c \in AllChains :
                Occurrences(lst.call.usageCalls, c)
                    = (IF \E i \in lst.call.keep : c \in ChainSet(i) THEN 1 ELSE 0)
          /\ ~lst.call.shared =>
                Len(lst.call.usageCalls) + Len(lst.call.hits)
                    = SumUsageRequests

C20_Witness ==
    /\ Listed /\ lst.call.shared /\ Len(lst.call.summaries) = 3
    /\ \A i \in 1..3 : <<"x">> \in ChainSet(i)
    /\ Occurrences(lst.call.usageCalls, <<"x">>) = 1
    /\ Len(lst.call.hits) >= 5

\* the snapshotter was asked for a chain ID it fails on
UsageFailed ==
    \E k \in 1..Len(lst.call.usageCalls) : lst.call.usageCalls[k] \in lst.failing

\* C21: when the snapshotter fails for a chain ID during a listing, the call returns
\* that error and no summary, also when sizes of earlier images were computed
C21_NoPartialListing ==
    (lst.call.called /\ UsageFailed) =>
        /\ lst.call.outcome = "err"
        /\ lst.call.summaries = <<>>
        /\ lst.call.err = ErrUsage(lst.call.usageCalls[Len(lst.call.usageCalls)])

C21_Witness ==
    /\ lst.call.called /\ UsageFailed
    /\ Len(lst.batch) = 3 /\ lst.call.keep = {1, 2, 3}
    /\ lst.call.usageCalls = << <<"x">>, <<"x", "y">>, <<"z">> >>
    /\ lst.failing = { <<"z">> }
    /\ lst.call.outcome = "err" /\ lst.call.summaries = <<>>

\* the filters of the call excluded an image of the listing
Excluding == lst.call.called /\ \E i \in 1..Len(lst.batch) : i \notin lst.call.keep

\* C28: a listing with shared size whose filters exclude an image completes without
\* a fault, and each summary it returns has the shared size of its own image, the
\* reference counts taken over the images kept
C28_SharedWithFilters ==
    (Excluding /\ lst.call.shared) =>
        /\ lst.call.outcome # "panic"
        /\ Listed =>
              /\ Len(lst.call.summaries) = Len(KeptSeq)
              /\ \A k \in 1..Len(lst.call.summaries) :
                    /\ lst.call.summaries[k].img = KeptSeq[k]
                    /\ lst.call.summaries[k].sharedSize =
                          SumUsage({c \in ChainSet(KeptSeq[k]) : RefCount(c) > 1})

(***************************************************************************)
(* Properties of the aggregated error and of the order of the deletes      *)
(***************************************************************************)
\* err.Error() of a collected error: its text, then what it is about
ErrMessage(e) == <<e.msg>> \o e.about

RECURSIVE ErrorFrom(_, _)
\* the loop of MultipleErrors.Error over the errors rest of m.all: a newline when
\* len(m.all) > 0, then the message
ErrorFrom(all, rest) ==
    IF rest = <<>> THEN <<>>
    ELSE (IF Len(all) > 0 THEN <<"\n">> ELSE <<>>) \o ErrMessage(Head(rest))
             \o ErrorFrom(all, Tail(rest))
\* MultipleErrors.Error
MultipleErrorsError(all) == ErrorFrom(all, all)

RECURSIVE Joined(_)
\* the messages of es with one newline between consecutive messages
Joined(es) ==
    IF es = <<>> THEN <<>>
    ELSE IF Len(es) = 1 THEN ErrMessage(es[1])
    ELSE ErrMessage(Head(es)) \o <<"\n">> \o Joined(Tail(es))

\* C26: the message of the aggregated error of prune is the messages of the errors
\* collected, in order, with one newline between consecutive messages and none
\* before the first
C26_JoinedByNewlines ==
    (Returned /\ ret.err.class = "MultipleErrors") =>
        MultipleErrorsError(ret.all) = Joined(ret.all)

\* the deletes of operation op that succeeded
Succeeded(op) == {calls[k].arg : k \in {j \in 1..Len(calls) : calls[j].op = op /\ calls[j].ok}}

\* C27: the report of prune has a deleted entry only for a digest whose Content Store
\* delete succeeded, an untagged entry only for a name whose Image Index delete
\* succeeded, and spaceReclaimed is the sum of the sizes of the blobs deleted
C27_OnlySucceeded ==
    /\ \A k \in 1..Len(report.deleted) :
          /\ report.deleted[k].deleted # NoDigest =>
                report.deleted[k].deleted \in Succeeded("store.Delete")
          /\ report.deleted[k].untagged # NoName =>
                report.deleted[k].untagged \in Succeeded("is.Delete")
    /\ report.spaceReclaimed = SumSizes(toDelete, Succeeded("store.Delete"))

\* C24: no blob that the walk of an image reached is deleted from the Content Store
\* while the record of that image is in the Image Index
C24_RecordBeforeContent ==
    \A i \in 1..Len(images) :
        images[i].name \in DOMAIN index =>
            VisitedDigests(i) \cap Succeeded("store.Delete") = {}

\* what the walk of target t may reach
Reach(t) == IF t.mediaType = "index" THEN Allowed(t) ELSE {t.digest} \cup Subtree(t)
\* the digests of the children of manifest list root that the walk does not select
Unselected(root) ==
    UNION {Subtree(Entries(root)[j]) : j \in 1..Len(Entries(root))} \ Allowed(root)
ReachOfAll == UNION {Reach(images[i].target) : i \in 1..Len(images)}

\* C29: a Content Store delete is issued only for a digest a walk visited, and nothing
\* else leaves the store; the manifests, configs and layers of the children of a
\* manifest list that the platform matcher does not select stay in the Content Store
\* (unless the walk of another image reaches them), while the name goes
C29_OnlyVisitedDeleted ==
    /\ \A k \in 1..Len(calls) : calls[k].op = "store.Delete" =>
          /\ \E v \in 1..Len(visits) : visits[v].desc.digest = calls[k].arg
          /\ calls[k].arg \in ReachOfAll
    /\ \A d \in AllDigests \ store : d = dM2 \/ d \in Succeeded("store.Delete")
    /\ \A i \in 1..Len(images) :
          images[i].target.mediaType = "index" =>
              (Unselected(images[i].target) \ ReachOfAll) \subseteq store
    /\ \A n \in Succeeded("is.Delete") : n \notin DOMAIN index

C29_Witness ==
    /\ Returned /\ Len(images) = 1 /\ images[1].target = tIdx
    /\ DOMAIN index = {}
    /\ {dIdx, dM2, dC2, dL1} \cap store = {}
    /\ {dM1, dC1, dM3, dC3, dL3} \subseteq store

\* C30: no delete of the Content Store or of the Image Index is issued before the
\* walk of every listed image has ended, so every walk reads the store as prune
\* found it
C30_TwoPhase ==
    /\ calls # <<>> => Len(walks) = Len(images) /\ todo = <<>>
    /\ Phase = "mark" => calls = <<>> /\ swept = {} /\ report = EmptyReport
    /\ Len(visits) > 0 /\ Len(walks) < Len(images) => calls = <<>>

C30_Witness ==
    /\ Returned /\ Len(images) = 2
    /\ walks = <<"failed", "ok">>
    /\ Len(CallsOf(calls, "store.Delete")) >= 4
    /\ Len(CallsOf(calls, "is.Delete")) = 2

\* C23: once the context is cancelled during the walks, the traversal goes no further
\* than the visit under way, prune issues no delete and returns a Cancelled error;
\* what was marked, reported and deleted before stays
C23_CancelAborts ==
    ctx.cancelled =>
        /\ Len(visits) <= ctx.visits + 1
        /\ Len(calls) = ctx.calls
        /\ pc = "done" => ret.err.class = "Canceled"
        /\ \A k \in 1..ctx.visits :
              visits[k].desc.size >= 0 => visits[k].desc.digest \in DOMAIN toDelete

(***************************************************************************)
(* TagImage (image_tag.go).  A call is one step: it resolves the image ID  *)
(* to a descriptor, creates the record, and when the name is taken deletes *)
(* the old record and creates the new one.  At most one of its calls of    *)
(* the Image Index is made to fail, named by the input "fault".            *)
(***************************************************************************)
TagFaults == {"none", "create", "get", "delete", "recreate", "undangle"}

\* one call of the Image Index made by TagImage, and whether it succeeded
TagOp(op, name, ok) == [op |-> op, name |-> name, ok |-> ok]

\* i.resolveDescriptor(ctx, imageID.String()): the target of the image the ID resolves to
ResolveDescriptor(idx, st, id) == ResolveImage(idx, st, FALSE, id, NoPlatform)

\* readConfig(ctx, store, {Digest: id}, &des): the blob of the ID read as a descriptor;
\* a blob that is missing, or that is not a JSON document, is an error
ReadConfig(st, id) ==
    IF id \notin st THEN [ok |-> FALSE, mediaType |-> "", err |-> Err("cerrdefs.NotFound", "content not found")]
    ELSE IF Blob(id).kind = "layer"
    THEN [ok |-> FALSE, mediaType |-> "", err |-> Err("json", "invalid character")]
    ELSE [ok |-> TRUE,
          mediaType |-> IF Blob(id).kind \in {"index", "manifest"} THEN Blob(id).kind ELSE "",
          err |-> NoErr]

\* the target TagImage gives the new record, rd being what resolveDescriptor returned:
\* the resolved descriptor, or one of size 1 built from the blob of the ID
TagTarget(rd, st, id) ==
    LET cfg == ReadConfig(st, id)
    IN  IF rd.err = NoErr THEN [ok |-> TRUE, target |-> rd.img.target, err |-> NoErr]
        ELSE IF ~cfg.ok THEN [ok |-> FALSE, target |-> NoDesc, err |-> cfg.err]
        ELSE [ok |-> TRUE, target |-> Desc(id, cfg.mediaType, 1, NoPlatform), err |-> NoErr]

\* is.Create(ctx, img)
IndexCreate(idx, name, target, fails) ==
    IF fails THEN [idx |-> idx, err |-> ErrIndex]
    ELSE IF name \in DOMAIN idx
    THEN [idx |-> idx, err |-> Err("cerrdefs.AlreadyExists", "image already exists")]
    ELSE [idx |-> [n \in DOMAIN idx \cup {name} |-> IF n = name THEN target ELSE idx[n]],
          err |-> NoErr]

\* the record deleted from the index
IndexWithout(idx, name) == [n \in DOMAIN idx \ {name} |-> idx[n]]

\* i.softImageDelete(ctx, img): the old record of the name is deleted
SoftImageDelete(idx, name, fails) ==
    IF fails THEN [idx |-> idx, err |-> ErrIndex]
    ELSE [idx |-> IndexWithout(idx, name), err |-> NoErr]

\* the test below comparing the whole descriptor instead of the digest
SameDescriptor(replaced, target) == replaced = target
\* the test that the record to replace already has the target:
\* replacedImg.Target.Digest == target.Digest
SameTarget(replaced, target) == replaced.digest = target.digest

\* the end of a TagImage that set the record: the dangling record of the target, if
\* there is one, is deleted; an error of the index here is logged, never returned
TagFinish(idx, target, fault, ops) ==
    LET dn == Dangling(target.digest)
    IN  IF dn \notin DOMAIN idx \/ fault = "get"
        THEN [idx |-> idx, err |-> NoErr, ops |-> Append(ops, TagOp("Get", dn, FALSE))]
        ELSE IF fault = "undangle"
        THEN [idx |-> idx, err |-> NoErr,
              ops |-> ops \o <<TagOp("Get", dn, TRUE), TagOp("Delete", dn, FALSE)>>]
        ELSE [idx |-> IndexWithout(idx, dn), err |-> NoErr,
              ops |-> ops \o <<TagOp("Get", dn, TRUE), TagOp("Delete", dn, TRUE)>>]

\* TagImage once the first is.Create answered that the name is taken
TagReplace(idx, target, name, fault, ops) ==
    LET got == Append(ops, TagOp("Get", name, fault # "get"))
        del == SoftImageDelete(idx, name, fault = "delete")
        dels == Append(got, TagOp("Delete", name, del.err = NoErr))
        again == IndexCreate(del.idx, name, target, fault = "recreate")
        agains == Append(dels, TagOp("Create", name, again.err = NoErr))
    IN  IF fault = "get"
        THEN [idx |-> idx, ops |-> got,
              err |-> ErrAbout("Unknown", "creating image failed because it already exists, but accessing it also failed", name)]
        ELSE IF SameTarget(idx[name], target)
        THEN [idx |-> idx, ops |-> got, err |-> NoErr]
        ELSE IF del.err # NoErr
        THEN [idx |-> del.idx, ops |-> dels,
              err |-> ErrAbout(del.err.class, "failed to delete previous image", name)]
        ELSE IF again.err # NoErr
        THEN [idx |-> again.idx, ops |-> agains,
              err |-> ErrAbout("System", "failed to create an image after deleting the existing one", name)]
        ELSE TagFinish(again.idx, target, fault, agains)

\* TagImage(ctx, imageID, newTag) with its target: the index it leaves, the error it
\* returns and the calls of the index it made
TagCreate(idx, target, name, fault) ==
    LET made == IndexCreate(idx, name, target, fault = "create")
        ops == <<TagOp("Create", name, made.err = NoErr)>>
    IN  IF made.err = NoErr THEN TagFinish(made.idx, target, fault, ops)
        ELSE IF made.err.class # "cerrdefs.AlreadyExists"
        THEN [idx |-> idx, ops |-> ops,
              err |-> ErrAbout("System", "failed to create image", name)]
        ELSE TagReplace(idx, target, name, fault, ops)

\* TagImage(ctx, imageID, newTag), rd being what resolveDescriptor returned for the ID
TagImageFn(idx, st, rd, id, name, fault) ==
    LET tt == TagTarget(rd, st, id)
    IN  IF tt.ok THEN TagCreate(idx, tt.target, name, fault)
        ELSE [idx |-> idx, err |-> tt.err, ops |-> <<>>]

\* the image IDs and the names TagImage is called with
TagIDs == {dM1, dM2, dM3}
TagNames == {nX, nY}

\* a call of TagImage as the history keeps it
TagCall(id, name, fault, before, out) ==
    [id |-> id, name |-> name, fault |-> fault, before |-> before,
     err |-> out.err, ops |-> out.ops]

\* a first call of TagImage
CallTagImage(id, name, fault) ==
    /\ tag = NoTag
    /\ \E rd \in {ResolveDescriptor(index, store, id)} :
       LET out == TagImageFn(index, store, rd, id, name, fault)
       IN  /\ index' = out.idx
           /\ tag' = <<TagCall(id, name, fault, index, out)>>
    /\ UNCHANGED <<store, res, pruneVars, lst, ctx>>

\* the same call made a second time
TagAgain(fault) ==
    /\ Len(tag) = 1
    /\ \E rd \in {ResolveDescriptor(index, store, tag[1].id)} :
       LET out == TagImageFn(index, store, rd, tag[1].id, tag[1].name, fault)
       IN  /\ index' = out.idx
           /\ tag' = Append(tag, TagCall(tag[1].id, tag[1].name, fault, index, out))
    /\ UNCHANGED <<store, res, pruneVars, lst, ctx>>

\* an index TagImage starts from: x and y tagged or not (NoDesc: not), the two
\* manifests kept as dangling images or not
TagIndex(x, y, d1, d2) ==
    LET want == [n \in TagNames \cup {Dangling(dM1), Dangling(dM2)} |->
                    IF n = nX THEN x
                    ELSE IF n = nY THEN y
                    ELSE IF n = Dangling(dM1) THEN (IF d1 THEN tM1 ELSE NoDesc)
                    ELSE (IF d2 THEN tM2 ELSE NoDesc)]
    IN  [n \in {k \in DOMAIN want : want[k] # NoDesc} |-> want[n]]

InitTag ==
    /\ \E x \in {NoDesc, tM1, tM1b, tM2}, y \in {NoDesc, tM1}, d1 \in BOOLEAN, d2 \in BOOLEAN :
          index = TagIndex(x, y, d1, d2)
    /\ store \in {AllDigests, AllDigests \ {dM2}}
    /\ res = NoCall
    /\ PruneIdle
    /\ ListIdle
    /\ RestIdle

NextTag ==
    \/ \E id \in TagIDs, name \in TagNames, fault \in TagFaults : CallTagImage(id, name, fault)
    \/ \E fault \in TagFaults : TagAgain(fault)

SpecTag == InitTag /\ [][NextTag]_vars

LastTag == tag[Len(tag)]

\* the call is an overwrite: the name had a record of another digest
Overwrites(c) == c.name \in DOMAIN c.before /\ c.before[c.name].digest # c.id

\* C22: a TagImage of a name that has a record of another digest never leaves the name
\* without a record: after the call the name has the new target when the call
\* succeeded, and the old target when it returned an error
C22_OverwriteAtomic ==
    (tag # NoTag /\ Overwrites(LastTag)) =>
        /\ LastTag.name \in DOMAIN index
        /\ LastTag.err = NoErr => index[LastTag.name].digest = LastTag.id
        /\ LastTag.err # NoErr => index[LastTag.name] = LastTag.before[LastTag.name]

\* the call names a record that has the digest already, and no index call fails
Retags(c) == c.name \in DOMAIN c.before /\ c.before[c.name].digest = c.id /\ c.fault = "none"

\* C25: a TagImage of a name whose record has the digest already succeeds, leaves
\* the index as it was, deletes nothing and creates nothing a second time; and the
\* same call repeated after a successful one leaves the index as the first left it
C25_RetagIsNoOp ==
    /\ (tag # NoTag /\ Retags(LastTag)) =>
          /\ LastTag.err = NoErr
          /\ index = LastTag.before
          /\ \A k \in 1..Len(LastTag.ops) :
                /\ LastTag.ops[k].op # "Delete"
                /\ LastTag.ops[k].op = "Create" => k = 1 /\ ~LastTag.ops[k].ok
    /\ (Len(tag) = 2 /\ tag[1].err = NoErr /\ tag[2].fault = "none") =>
          /\ tag[2].err = NoErr
          /\ index = tag[2].before

\* a retag of y, whose record differs in size from the one the ID resolves to,
\* followed by the same call again
C25_Witness ==
    /\ Len(tag) = 2
    /\ Retags(tag[1]) /\ Retags(tag[2])
    /\ tag[1].name = nY
    /\ nX \in DOMAIN tag[1].before
    /\ tag[1].before[nX] = tM1b
    /\ tag[1].before[nY] = tM1
    /\ index = tag[1].before

====
